---------------------------- MODULE Spec2Model ----------------------------
(***************************************************************************)
(* by_address: ByAddress<T> and ByThinAddress<T> (src/src/lib.rs).         *)
(*                                                                         *)
(* The wrappers give a pointer-like value T the identity of the address    *)
(* of its pointee.  The model carries the memory the pointers address      *)
(* (heap: the pointees, with their storage), the pointer values that can   *)
(* be formed into it (thin pointers to sized targets, slice pointers with  *)
(* a length word, trait-object pointers with a dispatch-table word), the   *)
(* operations of the two wrappers applied to them, and the documented      *)
(* client call_each_once over a hashed set keyed by ByAddress.             *)
(***************************************************************************)
EXTENDS Integers, Sequences, FiniteSets, TLC

(* ------------------------------ bounds -------------------------------- *)

\* Number of pointees allocated.
MaxObjs == 2

\* Length of the callback list handed to call_each_once.
MaxCalls == 3

\* Pointee values: the integers of the crate's examples (lib.rs:14, 419).
Vals == {1, 5}

\* Closure types, each with the dispatch tables the build emitted for
\* (type, dyn Fn()): more than one per type is possible (lib.rs:63-65).
ClosureTypes == {1, 2}

Vtables(cty) == {10 * cty, 10 * cty + 1}

\* Places where a pointer value can be held behind a borrow.
SlotAddrs == {100, 101}

\* States a hasher can be in before a wrapper is hashed into it.
HasherStates == {<< >>, <<7>>}

Flavours == {"ByAddress", "ByThinAddress"}

VARIABLES
    heap,       \* the pointees: sequence of [ty, size, addr, val, cty]
    res,        \* the last wrapper operation and what it returned
    pc,         \* call_each_once: "idle" | "loop" | "done"
    callbacks,  \* call_each_once: the input slice of &dyn Fn()
    idx,        \* call_each_once: position of the next item
    seen,       \* call_each_once: the HashSet<ByAddress<&dyn Fn()>>
    calls       \* call_each_once: positions whose callable was invoked

vars == <<heap, res, pc, callbacks, idx, seen, calls>>

(* ------------------------------ memory -------------------------------- *)

\* One past the last byte of storage handed out so far.
Brk(h) ==
    IF h = << >> THEN 1
    ELSE LET top == CHOOSE i \in DOMAIN h :
                        \A j \in DOMAIN h : h[j].addr + h[j].size
                                            <= h[i].addr + h[i].size
         IN  h[top].addr + h[top].size

\* A pointee that occupies storage gets fresh storage; one that occupies
\* none (a zero-sized value) may be placed at any address, in particular
\* one already in use or one handed out later.
ObjAddrs(h, size) ==
    IF size > 0 THEN {Brk(h)}
    ELSE {Brk(h)} \cup {h[i].addr : i \in DOMAIN h}

NewObjs(h) ==
    LET shapes ==
            {[ty |-> "i32", size |-> 1, val |-> <<v>>, cty |-> 0] : v \in Vals}
            \cup {[ty |-> "unit", size |-> 0, val |-> << >>, cty |-> 0]}
            \cup {[ty |-> "arr", size |-> 2, val |-> <<v, v>>, cty |-> 0]
                    : v \in Vals}
            \cup {[ty |-> "fn", size |-> 0, val |-> << >>, cty |-> c]
                    : c \in ClosureTypes}
            \cup {[ty |-> "fn", size |-> 1, val |-> <<1>>, cty |-> c]
                    : c \in ClosureTypes}
    IN  UNION {{[ty |-> s.ty, size |-> s.size, addr |-> a,
                 val |-> s.val, cty |-> s.cty] : a \in ObjAddrs(h, s.size)}
               : s \in shapes}

(* ----------------------------- pointers ------------------------------- *)

\* A pointer-like value T (T: Deref).  fam is the pointer family, tgt the
\* kind of T::Target, ty the target type; words is the raw pointer that
\* `&*self.0` yields: <<data address>> for a sized target,
\* <<data address, secondary word>> for an unsized one.  obj/off/len name
\* the pointee: the elements off+1..off+len of heap[obj].
SubSeqAt(s, off, len) == SubSeq(s, off + 1, off + len)

RefTo(h, o) ==
    [fam |-> "Ref", tgt |-> "sized", ty |-> h[o].ty,
     words |-> <<h[o].addr>>, obj |-> o, off |-> 0, len |-> h[o].size]

ManuallyDropOf(h, o) ==
    [fam |-> "ManuallyDrop", tgt |-> "sized", ty |-> h[o].ty,
     words |-> <<h[o].addr>>, obj |-> o, off |-> 0, len |-> h[o].size]

SliceOf(h, o, a, b) ==
    [fam |-> "Ref", tgt |-> "slice", ty |-> "[i32]",
     words |-> <<h[o].addr + a, b - a>>, obj |-> o, off |-> a, len |-> b - a]

DynRefTo(h, o, vt) ==
    [fam |-> "Ref", tgt |-> "dyn", ty |-> "dyn Fn()",
     words |-> <<h[o].addr, vt>>, obj |-> o, off |-> 0, len |-> h[o].size]

PtrsOf(h) ==
    {RefTo(h, o) : o \in {i \in DOMAIN h : h[i].ty \in {"i32", "unit"}}}
    \cup {ManuallyDropOf(h, o) : o \in {i \in DOMAIN h : h[i].ty = "i32"}}
    \cup UNION {{SliceOf(h, o, r[1], r[2])
                    : r \in {x \in (0..h[o].size) \X (0..h[o].size)
                                : x[1] <= x[2]}}
                : o \in {i \in DOMAIN h : h[i].ty = "arr"}}
    \cup UNION {{DynRefTo(h, o, vt) : vt \in Vtables(h[o].cty)}
                : o \in {i \in DOMAIN h : h[i].ty = "fn"}}

DynPtrsOf(h) == {p \in PtrsOf(h) : p.tgt = "dyn"}

\* Two pointer values have the same Rust type T.
SameType(p, q) == p.fam = q.fam /\ p.tgt = q.tgt /\ p.ty = q.ty

\* The value of the pointee, and whether two pointers name one pointee.
PointeeVal(h, p) == SubSeqAt(h[p.obj].val, p.off, p.len)

SamePointee(p, q) == p.obj = q.obj /\ p.off = q.off /\ p.len = q.len

(* ------------------------- the two wrappers --------------------------- *)

\* pub struct ByAddress<T>(pub T) / pub struct ByThinAddress<T>(pub T).
ByAddress(p) == [name |-> "ByAddress", f0 |-> p]

ByThinAddress(p) == [name |-> "ByThinAddress", f0 |-> p]

Wrap(fl, p) == IF fl = "ByAddress" THEN ByAddress(p) ELSE ByThinAddress(p)

\* Variant of BA_addr: the pointer is cast to *const () before it is used.
BA_addr_thin(w) == <<w.f0.words[1]>>

\* fn addr(&self) -> *const T::Target { &*self.0 }
BA_addr(w) == w.f0.words

BT_addr(w) == w.f0.words

\* `raw as *const ()`: the cast drops the secondary word.
ThinCast(raw) == <<raw[1]>>

\* core::ptr::eq on raw pointers: every word of the pointer is compared.
ptr_eq(a, b) == a = b

\* `<` on raw pointers: the data address first, then the secondary word.
RawLt(a, b) ==
    \/ a[1] < b[1]
    \/ a[1] = b[1] /\ Len(a) = 2 /\ Len(b) = 2 /\ a[2] < b[2]

\* Ord::cmp on raw pointers.
RawCmp(a, b) ==
    IF RawLt(a, b) THEN "Less"
    ELSE IF ptr_eq(a, b) THEN "Equal"
    ELSE "Greater"

\* Hash::hash on a raw pointer: the address, then the metadata, are
\* written to the hasher; state is the data the hasher has been fed.
RawHash(a, state) == state \o a

\* Hasher::finish of the data fed.
RECURSIVE Finish(_)
Finish(data) ==
    IF data = << >> THEN 17
    ELSE (31 * Finish(SubSeq(data, 1, Len(data) - 1)) + data[Len(data)]) % 256

Some(x) == [some |-> TRUE, val |-> x]

\* Variant of BA_eq: ptr::eq(self, other), the addresses of the two
\* wrappers themselves, which are two places whenever two values are
\* compared.
BA_eq_self(w1, w2) == FALSE

BA_eq(w1, w2) == ptr_eq(BA_addr(w1), BA_addr(w2))

\* Variant of BA_cmp: only the data addresses are ordered.
BA_cmp_thin(w1, w2) == RawCmp(<<BA_addr(w1)[1]>>, <<BA_addr(w2)[1]>>)

BA_cmp(w1, w2) == RawCmp(BA_addr(w1), BA_addr(w2))

BA_partial_cmp(w1, w2) == Some(RawCmp(BA_addr(w1), BA_addr(w2)))

BA_hash(w, state) == RawHash(BA_addr(w), state)

\* Variant of BT_eq: the cast to *const () is missing.
BT_eq_fat(w1, w2) == ptr_eq(BT_addr(w1), BT_addr(w2))

\* Variant of BT_eq: *self.0 == *other.0, the pointees' own equality.
BT_eq_by_value(w1, w2) ==
    /\ heap[w1.f0.obj].cty = heap[w2.f0.obj].cty
    /\ PointeeVal(heap, w1.f0) = PointeeVal(heap, w2.f0)

BT_eq(w1, w2) == ptr_eq(ThinCast(BT_addr(w1)), ThinCast(BT_addr(w2)))

\* Variant of BT_cmp: the operands are swapped.
BT_cmp_swapped(w1, w2) == RawCmp(ThinCast(BT_addr(w2)), ThinCast(BT_addr(w1)))

BT_cmp(w1, w2) == RawCmp(ThinCast(BT_addr(w1)), ThinCast(BT_addr(w2)))

BT_partial_cmp(w1, w2) ==
    Some(RawCmp(ThinCast(BT_addr(w1)), ThinCast(BT_addr(w2))))

\* Variant of BT_hash: the cast to *const () is missing.
BT_hash_fat(w, state) == RawHash(BT_addr(w), state)

BT_hash(w, state) == RawHash(ThinCast(BT_addr(w)), state)

\* The operations by the wrapper's name.
Eq(w1, w2) ==
    IF w1.name = "ByAddress" THEN BA_eq(w1, w2) ELSE BT_eq(w1, w2)

Cmp(w1, w2) ==
    IF w1.name = "ByAddress" THEN BA_cmp(w1, w2) ELSE BT_cmp(w1, w2)

PartialCmp(w1, w2) ==
    IF w1.name = "ByAddress" THEN BA_partial_cmp(w1, w2)
    ELSE BT_partial_cmp(w1, w2)

Hash(w, state) ==
    IF w.name = "ByAddress" THEN BA_hash(w, state) ELSE BT_hash(w, state)

(* --------------------------- debug output ----------------------------- *)

HexDigits == <<"0", "1", "2", "3", "4", "5", "6", "7",
               "8", "9", "a", "b", "c", "d", "e", "f">>

\* {:x} of an address, most significant digit first.
RECURSIVE Hex(_)
Hex(n) ==
    IF n < 16 THEN <<HexDigits[n + 1]>>
    ELSE Hex(n \div 16) \o <<HexDigits[(n % 16) + 1]>>

\* Debug of a raw pointer is its Pointer rendering: the data address.
PointerFmt(raw) == <<"0x">> \o Hex(raw[1])

RECURSIVE JoinInts(_)
JoinInts(vs) ==
    IF vs = << >> THEN << >>
    ELSE IF Len(vs) = 1 THEN <<ToString(vs[1])>>
    ELSE <<ToString(vs[1]), ", ">> \o JoinInts(Tail(vs))

\* Debug of the pointee: an i32, a unit value, a slice of i32.
PointeeDebug(h, p) ==
    IF p.ty = "i32" THEN <<ToString(PointeeVal(h, p)[1])>>
    ELSE IF p.ty = "unit" THEN <<"()">>
    ELSE <<"[">> \o JoinInts(PointeeVal(h, p)) \o <<"]">>

\* `self.0.fmt(f)` with self.0: &T resolves to <T as Debug>::fmt, the
\* wrapped pointer's own Debug.  A reference forwards to its pointee;
\* ManuallyDrop<U> (Deref<Target = U>) derives Debug on its field.
T_fmt(h, p) ==
    IF p.fam = "ManuallyDrop"
    THEN <<"ManuallyDrop { value: ">> \o PointeeDebug(h, p) \o <<" }">>
    ELSE PointeeDebug(h, p)

\* Variant of DebugAdapter_fmt: the address is written first.
DebugAdapter_fmt_swapped(h, p) ==
    PointerFmt(p.words) \o <<" @ ">> \o T_fmt(h, p)

\* impl Debug for DebugAdapter
DebugAdapter_fmt(h, p) == T_fmt(h, p) \o <<" @ ">> \o PointerFmt(p.words)

\* f.debug_tuple(name).field(&x).finish()
debug_tuple(name, field) == <<name, "(">> \o field \o <<")">>

BA_fmt(h, w) == debug_tuple("ByAddress", DebugAdapter_fmt(h, w.f0))

BT_fmt(h, w) == debug_tuple("ByThinAddress", DebugAdapter_fmt(h, w.f0))

DebugFmt(h, w) == IF w.name = "ByAddress" THEN BA_fmt(h, w) ELSE BT_fmt(h, w)

(* ----------------------- construction and access ---------------------- *)

\* Variant of FieldAddr: a layout that puts the field after a header word.
FieldAddr_padded(wloc) == wloc + 1

\* The address of field 0 of a wrapper that lives at wloc: the wrappers
\* are #[repr(transparent)], the field is at the wrapper's own address.
FieldAddr(wloc) == wloc

\* pub fn from_ref(r: &T) -> &Self { &*(r as *const T as *const Self) }
\* A borrow is the location borrowed and the type it is borrowed as.
BA_from_ref(r) == [loc |-> r.loc, as |-> "ByAddress"]

BT_from_ref(r) == [loc |-> r.loc, as |-> "ByThinAddress"]

from_ref(fl, r) == IF fl = "ByAddress" THEN BA_from_ref(r) ELSE BT_from_ref(r)

\* fn deref(&self) -> &T { &self.0 } on a borrowed wrapper.
deref_borrow(wr) == [loc |-> FieldAddr(wr.loc), as |-> "T"]

\* The wrapper a borrow of a wrapper reads: its field from memory.
LoadWrapper(mem, wr) == [name |-> wr.as, f0 |-> mem[FieldAddr(wr.loc)]]

\* impl From<T> for ByAddress<T>
BA_from(t) == ByAddress(t)

\* fn deref(&self) -> &T { &self.0 }
BA_deref(w) == [borrow |-> "shared", of |-> w.f0]

\* fn deref_mut(&mut self) -> &mut T { &mut self.0 }
BA_deref_mut(w) == [borrow |-> "excl", of |-> w.f0]

BT_deref(w) == [borrow |-> "shared", of |-> w.f0]

BT_deref_mut(w) == [borrow |-> "excl", of |-> w.f0]

\* What the wrapped pointer's own AsRef<U> / AsMut<U> give: a shared or
\* an exclusive view of its pointee.
T_as_ref(p) ==
    [borrow |-> "shared", of |-> [obj |-> p.obj, off |-> p.off, len |-> p.len]]

T_as_mut(p) ==
    [borrow |-> "excl", of |-> [obj |-> p.obj, off |-> p.off, len |-> p.len]]

\* fn as_ref(&self) -> &U { self.0.as_ref() }
BA_as_ref(w) == T_as_ref(w.f0)

\* fn as_mut(&mut self) -> &mut U { self.0.as_mut() }
BA_as_mut(w) == T_as_mut(w.f0)

BT_as_ref(w) == T_as_ref(w.f0)

\* The conversion and access traits each wrapper implements.
BA_Impls == {"from", "deref", "deref_mut", "as_ref", "as_mut"}

BT_Impls == {"deref", "deref_mut", "as_ref"}

Impls(fl) == IF fl = "ByAddress" THEN BA_Impls ELSE BT_Impls

\* Operation op of wrapper fl on pointer p: whether the wrapper has the
\* implementation (the call compiles), and what it returns.
Call(fl, op, p) ==
    IF op \notin Impls(fl) THEN [ok |-> FALSE, val |-> << >>]
    ELSE IF fl = "ByAddress"
    THEN [ok |-> TRUE,
          val |-> IF op = "from" THEN BA_from(p).f0
                  ELSE IF op = "deref" THEN BA_deref(ByAddress(p))
                  ELSE IF op = "deref_mut" THEN BA_deref_mut(ByAddress(p))
                  ELSE IF op = "as_ref" THEN BA_as_ref(ByAddress(p))
                  ELSE BA_as_mut(ByAddress(p))]
    ELSE [ok |-> TRUE,
          val |-> IF op = "deref" THEN BT_deref(ByThinAddress(p))
                  ELSE IF op = "deref_mut"
                       THEN BT_deref_mut(ByThinAddress(p))
                  ELSE BT_as_ref(ByThinAddress(p))]

(* --------------------------- call_each_once --------------------------- *)

\* HashSet::insert: the key is hashed, the entries with that hash are
\* compared with ==, and the key is added when none is equal.
HashOf(key) == Finish(Hash(key, << >>))

HashSetInsert(set, key) ==
    IF \E e \in set : e.hash = HashOf(key) /\ Eq(e.key, key)
    THEN [set |-> set, new |-> FALSE]
    ELSE [set |-> set \cup {[hash |-> HashOf(key), key |-> key]},
          new |-> TRUE]

\* All lists of 1..n elements of S.
RECURSIVE SeqsUpTo(_, _)
SeqsUpTo(S, n) ==
    IF n = 0 THEN {<< >>}
    ELSE LET shorter == SeqsUpTo(S, n - 1)
         IN  shorter \cup {Append(t, x) : t \in shorter, x \in S}

(* ------------------------------ actions ------------------------------- *)

NoRes == [op |-> "none"]

\* No call is in progress and the last result has been taken.
Ready == pc = "idle" /\ res = NoRes

Frame == UNCHANGED <<pc, callbacks, idx, seen, calls>>

Init ==
    /\ heap = << >>
    /\ res = NoRes
    /\ pc = "idle"
    /\ callbacks = << >>
    /\ idx = 1
    /\ seen = {}
    /\ calls = << >>

\* A pointee comes into existence (a local, a Box/Rc allocation, a Vec).
Alloc ==
    /\ Ready
    /\ Len(heap) < MaxObjs
    /\ \E o \in NewObjs(heap) : heap' = Append(heap, o)
    /\ res' = NoRes
    /\ Frame

\* a == b
DoEq ==
    /\ Ready
    /\ \E fl \in Flavours, p \in PtrsOf(heap), q \in PtrsOf(heap) :
          /\ SameType(p, q)
          /\ res' = [op |-> "eq", fl |-> fl, a |-> p, b |-> q,
                     out |-> Eq(Wrap(fl, p), Wrap(fl, q))]
    /\ UNCHANGED heap
    /\ Frame

\* a.cmp(&b)
DoCmp ==
    /\ Ready
    /\ \E fl \in Flavours, p \in PtrsOf(heap), q \in PtrsOf(heap) :
          /\ SameType(p, q)
          /\ res' = [op |-> "cmp", fl |-> fl, a |-> p, b |-> q,
                     out |-> Cmp(Wrap(fl, p), Wrap(fl, q))]
    /\ UNCHANGED heap
    /\ Frame

\* a.partial_cmp(&b)
DoPartialCmp ==
    /\ Ready
    /\ \E fl \in Flavours, p \in PtrsOf(heap), q \in PtrsOf(heap) :
          /\ SameType(p, q)
          /\ res' = [op |-> "partial_cmp", fl |-> fl, a |-> p, b |-> q,
                     out |-> PartialCmp(Wrap(fl, p), Wrap(fl, q))]
    /\ UNCHANGED heap
    /\ Frame

\* a.hash(&mut state), the hasher having been fed s before.
DoHash ==
    /\ Ready
    /\ \E fl \in Flavours, p \in PtrsOf(heap), s \in HasherStates :
          res' = [op |-> "hash", fl |-> fl, a |-> p, s |-> s,
                  out |-> Hash(Wrap(fl, p), s)]
    /\ UNCHANGED heap
    /\ Frame

\* format!("{:?}", a)
DoDebug ==
    /\ Ready
    /\ \E fl \in Flavours, p \in PtrsOf(heap) :
          /\ p.tgt # "dyn"
          /\ res' = [op |-> "debug", fl |-> fl, a |-> p,
                     out |-> DebugFmt(heap, Wrap(fl, p))]
    /\ UNCHANGED heap
    /\ Frame

\* let x = p; let w = Wrapper::from_ref(&x); the result keeps the borrow
\* r, the borrow w that from_ref returned, the borrow *w dereferences to,
\* and the memory (mem0 before, mem after) the borrows refer to.
DoFromRef ==
    /\ Ready
    /\ \E fl \in Flavours, p \in PtrsOf(heap), q \in PtrsOf(heap),
          s \in SlotAddrs :
          LET mem == [l \in SlotAddrs \cup {x + 1 : x \in SlotAddrs}
                        |-> IF l = s THEN p ELSE q]
              r   == [loc |-> s, as |-> "T"]
              w   == from_ref(fl, r)
          IN  res' = [op |-> "from_ref", fl |-> fl, a |-> p, r |-> r,
                      w |-> w, dr |-> deref_borrow(w),
                      mem0 |-> mem, mem |-> mem, heap0 |-> heap]
    /\ UNCHANGED heap
    /\ Frame

\* Wrapper::from(p), for a wrapper that implements it.
DoFrom ==
    /\ Ready
    /\ \E fl \in Flavours, p \in PtrsOf(heap) :
          /\ "from" \in Impls(fl)
          /\ res' = [op |-> "from", fl |-> fl, a |-> p,
                     out |-> Call(fl, "from", p)]
    /\ UNCHANGED heap
    /\ Frame

\* &*w, for a wrapper that implements it.
DoDeref ==
    /\ Ready
    /\ \E fl \in Flavours, p \in PtrsOf(heap) :
          /\ "deref" \in Impls(fl)
          /\ res' = [op |-> "deref", fl |-> fl, a |-> p,
                     out |-> Call(fl, "deref", p)]
    /\ UNCHANGED heap
    /\ Frame

\* &mut *w, for a wrapper that implements it.
DoDerefMut ==
    /\ Ready
    /\ \E fl \in Flavours, p \in PtrsOf(heap) :
          /\ "deref_mut" \in Impls(fl)
          /\ res' = [op |-> "deref_mut", fl |-> fl, a |-> p,
                     out |-> Call(fl, "deref_mut", p)]
    /\ UNCHANGED heap
    /\ Frame

\* w.as_ref(), for a wrapper that implements it.
DoAsRef ==
    /\ Ready
    /\ \E fl \in Flavours, p \in PtrsOf(heap) :
          /\ "as_ref" \in Impls(fl)
          /\ res' = [op |-> "as_ref", fl |-> fl, a |-> p,
                     out |-> Call(fl, "as_ref", p)]
    /\ UNCHANGED heap
    /\ Frame

\* w.as_mut(), for a wrapper that implements it.
DoAsMut ==
    /\ Ready
    /\ \E fl \in Flavours, p \in PtrsOf(heap) :
          /\ "as_mut" \in Impls(fl)
          /\ res' = [op |-> "as_mut", fl |-> fl, a |-> p,
                     out |-> Call(fl, "as_mut", p)]
    /\ UNCHANGED heap
    /\ Frame

\* The caller takes the result.
Return ==
    /\ pc = "idle"
    /\ res # NoRes
    /\ res' = NoRes
    /\ UNCHANGED heap
    /\ Frame

\* call_each_once(callbacks): entry.
CallEachOnce ==
    /\ Ready
    /\ \E cbs \in SeqsUpTo(DynPtrsOf(heap), MaxCalls) \ {<< >>} :
          callbacks' = cbs
    /\ pc' = "loop"
    /\ idx' = 1
    /\ seen' = {}
    /\ calls' = << >>
    /\ UNCHANGED <<heap, res>>

\* for &f in callbacks { if seen.insert(ByAddress(f)) { f(); } }
LoopStep ==
    /\ pc = "loop"
    /\ idx <= Len(callbacks)
    /\ LET ins == HashSetInsert(seen, ByAddress(callbacks[idx]))
       IN  /\ seen' = ins.set
           /\ calls' = IF ins.new THEN Append(calls, idx) ELSE calls
    /\ idx' = idx + 1
    /\ UNCHANGED <<heap, res, pc, callbacks>>

LoopEnd ==
    /\ pc = "loop"
    /\ idx > Len(callbacks)
    /\ pc' = "done"
    /\ UNCHANGED <<heap, res, callbacks, idx, seen, calls>>

Next ==
    \/ Alloc
    \/ DoEq
    \/ DoCmp
    \/ DoPartialCmp
    \/ DoHash
    \/ DoDebug
    \/ DoFromRef
    \/ DoFrom
    \/ DoDeref
    \/ DoDerefMut
    \/ DoAsRef
    \/ DoAsMut
    \/ Return
    \/ CallEachOnce
    \/ LoopStep
    \/ LoopEnd

Spec == Init /\ [][Next]_vars

(* ------------------------------ claims -------------------------------- *)

\* The parts of a pointer the claims speak of.
DataAddr(p) == p.words[1]

HasSecondary(p) == p.tgt # "sized"

Secondary(p) == p.words[2]

FullMatch(p, q) ==
    /\ DataAddr(p) = DataAddr(q)
    /\ HasSecondary(p) => Secondary(p) = Secondary(q)

OtherFlavour(fl) == IF fl = "ByAddress" THEN "ByThinAddress" ELSE "ByAddress"

Reverse(o) == IF o = "Less" THEN "Greater" ELSE IF o = "Greater" THEN "Less" ELSE o

IntOrder(x, y) == IF x < y THEN "Less" ELSE IF x = y THEN "Equal" ELSE "Greater"

\* Two pointers of one type whose pointees are equal values.
EqualPointees(p, q) ==
    /\ heap[p.obj].cty = heap[q.obj].cty
    /\ PointeeVal(heap, p) = PointeeVal(heap, q)

\* C1: ByAddress(a) == ByAddress(b) iff the data addresses are equal and,
\* for an unsized target, the secondary words (slice length, dispatch
\* table) are equal too; same start with another length, and same data
\* address with another dispatch table, compare unequal.
C1_ByAddressEqFullFingerprint ==
    (res.op = "eq" /\ res.fl = "ByAddress") =>
        /\ res.out <=> FullMatch(res.a, res.b)
        /\ (/\ HasSecondary(res.a)
            /\ DataAddr(res.a) = DataAddr(res.b)
            /\ Secondary(res.a) # Secondary(res.b)) => res.out = FALSE

C1_Witness ==
    /\ res.op = "eq"
    /\ res.fl = "ByAddress"
    /\ res.a.tgt = "dyn"
    /\ DataAddr(res.a) = DataAddr(res.b)
    /\ Secondary(res.a) # Secondary(res.b)
    /\ res.out = FALSE

\* C2: ByThinAddress(a) == ByThinAddress(b) iff the data addresses are
\* equal, whatever the secondary words are.
C2_ByThinAddressEqDataAddress ==
    (res.op = "eq" /\ res.fl = "ByThinAddress") =>
        (res.out <=> DataAddr(res.a) = DataAddr(res.b))

C2_Witness ==
    /\ res.op = "eq"
    /\ res.fl = "ByThinAddress"
    /\ HasSecondary(res.a)
    /\ Secondary(res.a) # Secondary(res.b)
    /\ res.out = TRUE

\* C3: for either wrapper, a == b implies that hashing a and hashing b into
\* hashers in the same state feeds them the same data, and so gives the
\* same hash.
C3_HashConsistent ==
    res.op = "hash" =>
        \A q \in PtrsOf(heap) :
            (SameType(res.a, q) /\ Eq(Wrap(res.fl, res.a), Wrap(res.fl, q))) =>
                /\ Hash(Wrap(res.fl, q), res.s) = res.out
                /\ Finish(Hash(Wrap(res.fl, q), res.s)) = Finish(res.out)

C3_Witness ==
    /\ res.op = "hash"
    /\ res.fl = "ByThinAddress"
    /\ HasSecondary(res.a)
    /\ \E q \in PtrsOf(heap) :
          /\ SameType(res.a, q)
          /\ q.words # res.a.words
          /\ Eq(Wrap(res.fl, res.a), Wrap(res.fl, q))

\* C4: cmp is a total order on the wrapper's fingerprint (reflexive,
\* antisymmetric, transitive), Equal exactly when ==, partial_cmp is
\* Some(cmp); for ByAddress the data address decides and the secondary
\* word breaks ties, for ByThinAddress the data address alone decides.
C4_CmpTotalOrder ==
    /\ res.op = "partial_cmp" =>
          res.out = Some(Cmp(Wrap(res.fl, res.a), Wrap(res.fl, res.b)))
    /\ res.op = "cmp" =>
          LET a == Wrap(res.fl, res.a)
              b == Wrap(res.fl, res.b)
          IN  /\ res.out \in {"Less", "Equal", "Greater"}
              /\ (res.out = "Equal") <=> Eq(a, b)
              /\ PartialCmp(a, b) = Some(res.out)
              /\ Cmp(a, a) = "Equal"
              /\ Cmp(b, a) = Reverse(res.out)
              /\ \A r \in PtrsOf(heap) :
                    (SameType(res.a, r) /\ res.out # "Greater"
                        /\ Cmp(b, Wrap(res.fl, r)) # "Greater") =>
                       /\ Cmp(a, Wrap(res.fl, r)) # "Greater"
                       /\ (res.out = "Less" \/ Cmp(b, Wrap(res.fl, r)) = "Less")
                             => Cmp(a, Wrap(res.fl, r)) = "Less"
              /\ res.fl = "ByAddress" =>
                    res.out =
                        IF DataAddr(res.a) # DataAddr(res.b)
                        THEN IntOrder(DataAddr(res.a), DataAddr(res.b))
                        ELSE IF HasSecondary(res.a)
                        THEN IntOrder(Secondary(res.a), Secondary(res.b))
                        ELSE "Equal"
              /\ res.fl = "ByThinAddress" =>
                    res.out = IntOrder(DataAddr(res.a), DataAddr(res.b))

C4_Witness ==
    /\ res.op = "cmp"
    /\ res.fl = "ByAddress"
    /\ HasSecondary(res.a)
    /\ DataAddr(res.a) = DataAddr(res.b)
    /\ Secondary(res.a) > Secondary(res.b)
    /\ res.out = "Greater"

\* C5 as stated: two pointers to equal but distinct pointee values compare
\* unequal under both wrappers, zero-sized pointees and empty sequences
\* included.
C5_DistinctPointeesUnequal ==
    res.op = "eq" =>
        ((EqualPointees(res.a, res.b) /\ ~SamePointee(res.a, res.b))
            => res.out = FALSE)

\* C5 as amended: two pointers to equal but distinct pointee values that
\* occupy storage compare unequal under both wrappers.
C5_DistinctStoredPointeesUnequal ==
    res.op = "eq" =>
        ((/\ EqualPointees(res.a, res.b)
          /\ ~SamePointee(res.a, res.b)
          /\ res.a.len > 0) => res.out = FALSE)

C5_Witness ==
    /\ res.op = "eq"
    /\ res.fl = "ByThinAddress"
    /\ EqualPointees(res.a, res.b)
    /\ ~SamePointee(res.a, res.b)
    /\ res.a.len > 0
    /\ res.out = FALSE

\* C6: for a sized target the two wrappers agree on ==, on cmp and on the
\* data fed to the hasher; for an unsized target ByAddress equality
\* implies ByThinAddress equality (and not the other way round).
C6_FlavoursAgreeWhenSized ==
    /\ res.op = "eq" =>
          LET other == Eq(Wrap(OtherFlavour(res.fl), res.a),
                          Wrap(OtherFlavour(res.fl), res.b))
          IN  /\ ~HasSecondary(res.a) => (res.out <=> other)
              /\ (res.fl = "ByAddress" /\ res.out) => other
    /\ (res.op = "cmp" /\ ~HasSecondary(res.a)) =>
          res.out = Cmp(Wrap(OtherFlavour(res.fl), res.a),
                        Wrap(OtherFlavour(res.fl), res.b))
    /\ (res.op = "hash" /\ ~HasSecondary(res.a)) =>
          res.out = Hash(Wrap(OtherFlavour(res.fl), res.a), res.s)

C6_Witness ==
    /\ res.op = "eq"
    /\ res.fl = "ByThinAddress"
    /\ HasSecondary(res.a)
    /\ res.out = TRUE
    /\ ~Eq(ByAddress(res.a), ByAddress(res.b))

\* Positions of the list processed so far.
Processed == 1..(idx - 1)

Invoked == {calls[k] : k \in DOMAIN calls}

\* C7 as stated: every distinct callable of the list is invoked exactly
\* once, at the position of its first occurrence.
C7_EachCallableOnce ==
    pc = "done" =>
        \A i \in DOMAIN callbacks :
            (i \in Invoked) <=>
                (\A j \in 1..(i - 1) : callbacks[j].obj # callbacks[i].obj)

\* C7 as amended: every distinct reference of the list, told apart by data
\* address and dispatch table together, is invoked exactly once, at the
\* position of its first occurrence, in list order; a later reference with
\* the same data address and the same dispatch table is skipped.
C7_EachFingerprintOnce ==
    pc \in {"loop", "done"} =>
        /\ \A i \in Processed :
              (i \in Invoked) <=>
                  (\A j \in 1..(i - 1) :
                        callbacks[j].words # callbacks[i].words)
        /\ \A k \in DOMAIN calls :
              /\ calls[k] \in Processed
              /\ \A m \in DOMAIN calls : k < m => calls[k] < calls[m]

C7_Witness ==
    /\ pc = "done"
    /\ Len(callbacks) = 3
    /\ callbacks[1].words = callbacks[3].words
    /\ callbacks[1].obj = callbacks[2].obj
    /\ callbacks[1].words # callbacks[2].words
    /\ calls = <<1, 2>>

\* The rendering "<name>(<inner> @ <data address>)".
Rendering(name, inner, p) ==
    <<name, "(">> \o inner \o <<" @ ", "0x">> \o Hex(DataAddr(p)) \o <<")">>

Fingerprint(fl, p) == IF fl = "ByAddress" THEN p.words ELSE <<DataAddr(p)>>

\* C9: from_ref(r) refers to the same memory as r, dereferences to a borrow
\* of the same pointer p, compares ==, orders Equal and hashes the same as
\* a directly constructed wrapper of a pointer with p's fingerprint, and
\* changes neither p nor the pointee.
C9_FromRefRoundTrip ==
    res.op = "from_ref" =>
        /\ res.w.loc = res.r.loc
        /\ res.dr = res.r
        /\ res.mem[res.dr.loc] = res.a
        /\ LoadWrapper(res.mem, res.w) = Wrap(res.fl, res.a)
        /\ \A q \in PtrsOf(heap) :
              (/\ SameType(res.a, q)
               /\ Fingerprint(res.fl, q) = Fingerprint(res.fl, res.a)) =>
                 LET w == LoadWrapper(res.mem, res.w)
                     d == Wrap(res.fl, q)
                 IN  /\ Eq(w, d)
                     /\ Cmp(w, d) = "Equal"
                     /\ PartialCmp(w, d) = Some("Equal")
                     /\ \A s \in HasherStates : Hash(w, s) = Hash(d, s)
        /\ res.mem = res.mem0
        /\ heap = res.heap0

C9_Witness ==
    /\ res.op = "from_ref"
    /\ res.fl = "ByThinAddress"
    /\ HasSecondary(res.a)
    /\ \E l \in DOMAIN res.mem : res.mem[l] # res.a
    /\ \E q \in PtrsOf(heap) :
          /\ SameType(res.a, q)
          /\ q # res.a
          /\ Fingerprint(res.fl, q) = Fingerprint(res.fl, res.a)

\* C10: ByThinAddress has every construction and access operation that
\* ByAddress has (From<T>, Deref, DerefMut, AsRef, AsMut), with the same
\* result.
C10_SameOperations ==
    (res.op \in BA_Impls /\ res.fl = "ByAddress") =>
        /\ Call("ByThinAddress", res.op, res.a).ok
        /\ Call("ByThinAddress", res.op, res.a).val = res.out.val

=============================================================================
